---- MODULE Spec2Model ----
(***************************************************************************)
(* The similarity engine of the product catalog: the Product and           *)
(* ProductSimilarity tables (catalog/models.py), the request handlers of   *)
(* catalog/views.py and the init_similarities management command.          *)
(*                                                                         *)
(* The database runs in Django's default autocommit mode: every query of a *)
(* handler is its own transaction, so a handler is a sequence of atomic    *)
(* steps and two handlers interleave between their queries.  Each worker   *)
(* w runs one handler at a time; pc[w] is its position in the handler.     *)
(*                                                                         *)
(* A handler step is an operator from the tables and the handler's frame   *)
(* to the new tables and frame.  SpecConc takes the steps one at a time,   *)
(* interleaved between two workers; Spec and SpecSat run every request to  *)
(* its response in one action (requests that do not overlap).              *)
(*                                                                         *)
(* Scores are the floats 0.0 .. 1.0 of the code counted in units of 0.05:  *)
(* 0.5 is 10, the increment 0.1 is 2, the decrement 0.05 is 1, 1.0 is 20.  *)
(***************************************************************************)
EXTENDS Integers, Sequences, FiniteSets, TLC

\* ---------------------------------------------------------------- bounds
\* Spec: product rows ever inserted (their ids are 1 .. MaxProducts) and
\* feedback requests accepted in a run.
MaxProducts == 3
MaxFeedback == 1
\* SpecSat: products; any number of feedback requests.
MaxSatProducts == 3
\* SpecDetail: a catalog large enough for a product with more than TopK peers.
MaxDetailProducts == 5
MaxDetailFeedback == 1
\* SpecBulk: the largest catalog loaded before the similarity table was first
\* filled, and the feedback requests accepted in a run.
MaxBulkProducts == 3
MaxBulkFeedback == 1
\* SpecConc: products, requests accepted in a run, feedback requests among them.
MaxConcProducts == 3
MaxRequests == 3
MaxConcFeedback == 2
\* SpecRace: the largest catalog at the start (and product rows ever
\* inserted), and the requests accepted in a run.
MaxRaceProducts == 3
MaxRaceRequests == 2

\* ------------------------------------------------------ program constants
DefaultScore == 10
IncStep == 2
DecStep == 1
MaxScore == 20
MinScore == 0
TopK == 3

\* The server processes; requests that do not overlap are all served by the first.
Workers == {"w1", "w2"}
First == "w1"
NoRow == [id |-> 0, a |-> 0, b |-> 0, score |-> 0]
NoReq == [op |-> "none"]
NoLoc == [none |-> TRUE]
NoResp == [status |-> "none", body |-> <<>>]
NoPre == [products |-> {}, sims |-> {}]

VARIABLES
    products,    \* ids of the rows of the Product table
    nextId,      \* the next Product id the database assigns
    sims,        \* rows of the ProductSimilarity table: [id, a, b, score]
    nextSimId,   \* the next ProductSimilarity id the database assigns
    nFeedback,   \* feedback requests accepted so far
    nRequests,   \* requests accepted so far (counted in SpecConc)
    pc,          \* pc[w]: where worker w is in its handler
    req,         \* req[w]: the request worker w is serving
    loc,         \* loc[w]: the handler's local variables
    resp,        \* resp[w]: the response of the handler: status and body
    pre          \* pre[w]: the tables when the request was accepted (Spec, SpecSat, SpecDetail)

vars == <<products, nextId, sims, nextSimId, nFeedback, nRequests, pc, req, loc, resp, pre>>

\* ------------------------------------------------------------- helpers
Min(x, y) == IF x < y THEN x ELSE y
Max(x, y) == IF x > y THEN x ELSE y

SetMin(S) == CHOOSE x \in S : \A y \in S : x <= y

\* A queryset without order_by comes back in primary-key order.
RECURSIVE AscSeq(_)
AscSeq(S) == IF S = {} THEN <<>> ELSE <<SetMin(S)>> \o AscSeq(S \ {SetMin(S)})

\* Mutant of Combinations2: combinations_with_replacement, which also pairs a
\* product with itself.
RECURSIVE CombinationsWithSelf(_)
CombinationsWithSelf(s) ==
    IF Len(s) < 1 THEN <<>>
    ELSE [i \in 1 .. Len(s) |-> <<s[1], s[i]>>] \o CombinationsWithSelf(Tail(s))

\* itertools.combinations(products, 2) of a list.
RECURSIVE Combinations2(_)
Combinations2(s) ==
    IF Len(s) < 2 THEN <<>>
    ELSE [i \in 1 .. (Len(s) - 1) |-> <<s[1], s[i + 1]>>] \o Combinations2(Tail(s))

\* The tables, the frame of a handler, and the result of a handler step.
DB == [products |-> products, nextId |-> nextId, sims |-> sims, nextSimId |-> nextSimId]
Frame(w) == [pc |-> pc[w], req |-> req[w], loc |-> loc[w], resp |-> resp[w]]
Out(db, f) == [db |-> db, f |-> f]
Begin(r, at, l) == [pc |-> at, req |-> r, loc |-> l, resp |-> NoResp]
Finish(f, status, body) == [f EXCEPT !.pc = "done", !.resp = [status |-> status, body |-> body]]

\* ------------------------------------------------- ProductSimilarity model
\* Mutant of Normalize: the comparison of save() the wrong way round.
NormalizeInverted(r) == IF r.a < r.b THEN [r EXCEPT !.a = r.b, !.b = r.a] ELSE r

\* ProductSimilarity.save: product_a gets the smaller id.
Normalize(r) == IF r.a > r.b THEN [r EXCEPT !.a = r.b, !.b = r.a] ELSE r

\* Mutant of UniqueOk: a table without the unique_together constraint.
UniqueOkMissing(rows, r) == TRUE

\* Meta.unique_together = ('product_a', 'product_b').
UniqueOk(rows, r) == ~\E x \in rows : x.id # r.id /\ x.a = r.a /\ x.b = r.b

\* The two foreign keys to Product.
FkOk(prods, r) == r.a \in prods /\ r.b \in prods

\* save() of an object without primary key: INSERT, or IntegrityError.
SaveInsert(db, r) ==
    LET n == Normalize([r EXCEPT !.id = db.nextSimId]) IN
    IF UniqueOk(db.sims, n) /\ FkOk(db.products, n)
    THEN [ok |-> TRUE, db |-> [db EXCEPT !.sims = @ \cup {n}, !.nextSimId = @ + 1]]
    ELSE [ok |-> FALSE, db |-> db]

\* save() of an object read from the table: UPDATE by primary key (INSERT when
\* the row is gone), or IntegrityError.
SaveUpdate(db, r) ==
    LET n == Normalize(r) IN
    IF UniqueOk(db.sims, n) /\ FkOk(db.products, n)
    THEN [ok |-> TRUE, db |-> [db EXCEPT !.sims = {x \in @ : x.id # n.id} \cup {n}]]
    ELSE [ok |-> FALSE, db |-> db]

\* objects.create(product_a=a, product_b=b, score=s)
Create(db, a, b, s) == SaveInsert(db, [id |-> 0, a |-> a, b |-> b, score |-> s])

\* ------------------------------------------------- CreateProductView.post
\* Lines 227-229 and 238: the serializer validates the payload and saves the
\* product.
CreateProductView_post(db, valid) ==
    IF valid
    THEN Out([db EXCEPT !.products = @ \cup {db.nextId}, !.nextId = @ + 1],
             Begin([op |-> "create", valid |-> TRUE], "create_query",
                   [new |-> db.nextId, todo |-> <<>>]))
    ELSE Out(db, Finish(Begin([op |-> "create", valid |-> FALSE], "done", NoLoc), "400", <<>>))

\* Mutant of CreateProductView_query: Product.objects.all(), the new product
\* not excluded.
CreateProductView_queryAll(db, f) ==
    Out(db, [f EXCEPT !.pc = "create_link", !.loc.todo = AscSeq(db.products)])

\* Line 230: the for loop evaluates Product.objects.exclude(id=new_product.id).
CreateProductView_query(db, f) ==
    LET others == AscSeq(db.products \ {f.loc.new}) IN
    IF others = <<>>
    THEN Out(db, Finish(f, "201", <<>>))
    ELSE Out(db, [f EXCEPT !.pc = "create_link", !.loc.todo = others])

\* Line 231: the view's own ordering of the pair.
CreatePair(new, other) ==
    IF new < other THEN [a |-> new, b |-> other] ELSE [a |-> other, b |-> new]

\* Mutant of CreateProductView_link: the loop left after its first pass.
CreateProductView_linkOnce(db, f) ==
    LET pair == CreatePair(f.loc.new, Head(f.loc.todo))
        res == Create(db, pair.a, pair.b, DefaultScore) IN
    IF ~res.ok THEN Out(db, Finish(f, "500", <<>>))
    ELSE Out(res.db, Finish([f EXCEPT !.loc.todo = <<>>], "201", <<>>))

\* Lines 231-237: one pass of the loop; an IntegrityError is not caught.
CreateProductView_link(db, f) ==
    LET pair == CreatePair(f.loc.new, Head(f.loc.todo))
        res == Create(db, pair.a, pair.b, DefaultScore)
        rest == Tail(f.loc.todo) IN
    IF ~res.ok THEN Out(db, Finish(f, "500", <<>>))
    ELSE IF rest = <<>> THEN Out(res.db, Finish([f EXCEPT !.loc.todo = rest], "201", <<>>))
    ELSE Out(res.db, [f EXCEPT !.loc.todo = rest])

\* ------------------------------------------------ DeleteProductView.delete
\* Mutant of DeleteProductView_delete: product_b without on_delete=CASCADE;
\* only the rows whose product_a is the product go with it.
DeleteProductView_deleteFrom(db, pk) ==
    IF pk \in db.products
    THEN Out([db EXCEPT !.products = @ \ {pk}, !.sims = {x \in @ : x.a # pk}],
             Finish(Begin([op |-> "delete", pk |-> pk], "done", NoLoc), "204", <<>>))
    ELSE Out(db, Finish(Begin([op |-> "delete", pk |-> pk], "done", NoLoc), "404", <<>>))

\* get_object_or_404, then product.delete(): one transaction that removes the
\* product and, by on_delete=CASCADE, every similarity row that references it.
DeleteProductView_delete(db, pk) ==
    IF pk \in db.products
    THEN Out([db EXCEPT !.products = @ \ {pk},
                        !.sims = {x \in @ : x.a # pk /\ x.b # pk}],
             Finish(Begin([op |-> "delete", pk |-> pk], "done", NoLoc), "204", <<>>))
    ELSE Out(db, Finish(Begin([op |-> "delete", pk |-> pk], "done", NoLoc), "404", <<>>))

\* ------------------------------------------------- UpdateSimilarityView.post
\* objects.filter(product_a=a, product_b=b)
Lookup(rows, a, b) == {x \in rows : x.a = a /\ x.b = b}

\* Mutant of SimilarityLookup: the pair queried in the order of the arguments.
SimilarityLookupAsGiven(rows, p1, p2) == Lookup(rows, p1, p2)

\* get_similarity_object, lines 162-165: orders the pair for the query.
SimilarityLookup(rows, p1, p2) ==
    IF p1 < p2 THEN Lookup(rows, p1, p2) ELSE Lookup(rows, p2, p1)

\* get_object_or_404 on the rows found: Http404 for none, the row for one,
\* MultipleObjectsReturned (a 500 response) for more.
GetOr404(db, f, found, at) ==
    IF Cardinality(found) = 1
    THEN Out(db, [f EXCEPT !.pc = at, !.loc.sim = CHOOSE x \in found : TRUE])
    ELSE Out(db, Finish(f, IF found = {} THEN "404" ELSE "500", <<>>))

\* Mutant of Increase: the increment without the cap.
IncreaseUncapped(s) == s + IncStep

\* Mutant of Decrease: the step of the increment used for the decrement.
DecreaseByIncStep(s) == Max(s - IncStep, MinScore)

Increase(s) == Min(s + IncStep, MaxScore)
Decrease(s) == Max(s - DecStep, MinScore)

\* Lines 127-133: the payload is read and the two products are fetched with
\* Product.objects.get, which raises DoesNotExist (a 500 response) for an id
\* that names no product.  other_products is a lazy queryset.
UpdateSimilarityView_post(db, cur, clicked, others) ==
    LET f == Begin([op |-> "feedback", cur |-> cur, clicked |-> clicked, others |-> others],
                   "fb_get_clicked", [sim |-> NoRow, todo |-> <<>>]) IN
    IF cur \in db.products /\ clicked \in db.products
    THEN Out(db, f)
    ELSE Out(db, Finish(f, "500", <<>>))

\* Line 136.
UpdateSimilarityView_getClicked(db, f) ==
    GetOr404(db, f, SimilarityLookup(db.sims, f.req.cur, f.req.clicked), "fb_save_clicked")

\* Lines 137-138: the new score is computed from the score that was read.
UpdateSimilarityView_saveClicked(db, f) ==
    LET res == SaveUpdate(db, [f.loc.sim EXCEPT !.score = Increase(@)]) IN
    IF res.ok THEN Out(res.db, [f EXCEPT !.pc = "fb_others"])
    ELSE Out(db, Finish(f, "500", <<>>))

\* Line 141: the for loop evaluates Product.objects.filter(pk__in=other_ids);
\* line 146 when there is nothing to loop over.
UpdateSimilarityView_others(db, f) ==
    LET others == AscSeq(f.req.others \cap db.products) IN
    IF others = <<>>
    THEN Out(db, Finish(f, "204", <<>>))
    ELSE Out(db, [f EXCEPT !.pc = "fb_get_other", !.loc.todo = others])

\* Line 142.
UpdateSimilarityView_getOther(db, f) ==
    GetOr404(db, f, SimilarityLookup(db.sims, f.req.cur, Head(f.loc.todo)), "fb_save_other")

\* Lines 143-146.
UpdateSimilarityView_saveOther(db, f) ==
    LET res == SaveUpdate(db, [f.loc.sim EXCEPT !.score = Decrease(@)])
        rest == Tail(f.loc.todo) IN
    IF ~res.ok THEN Out(db, Finish(f, "500", <<>>))
    ELSE IF rest = <<>> THEN Out(res.db, Finish([f EXCEPT !.loc.todo = rest], "204", <<>>))
    ELSE Out(res.db, [f EXCEPT !.pc = "fb_get_other", !.loc.todo = rest])

\* ------------------------------------- init_similarities: Command.handle
\* Lines 9-13: the products are read once; the loop runs over their pairs.
Command_handle(db) ==
    LET pairs == Combinations2(AscSeq(db.products))
        f == Begin([op |-> "init"], "init_get", [pairs |-> pairs, total |-> 0, created |-> 0]) IN
    IF pairs = <<>> THEN Out(db, Finish(f, "success", <<0, 0>>)) ELSE Out(db, f)

\* Line 14.
InitPair(prod1, prod2) ==
    IF prod1 < prod2 THEN [a |-> prod1, b |-> prod2] ELSE [a |-> prod2, b |-> prod1]

\* The lookup of get_or_create(product_a=, product_b=, score=0.5): score is
\* given as a lookup field, not in defaults.
InitLookup(rows, pair) == {x \in Lookup(rows, pair.a, pair.b) : x.score = DefaultScore}

\* Lines 21-27: the counters, then the next pair or the report.
Command_count(db, f, created) ==
    LET total == f.loc.total + 1
        new == f.loc.created + (IF created THEN 1 ELSE 0)
        rest == Tail(f.loc.pairs)
        g == [f EXCEPT !.loc.total = total, !.loc.created = new, !.loc.pairs = rest] IN
    IF rest = <<>>
    THEN Out(db, Finish(g, "success", <<total, new>>))
    ELSE Out(db, [g EXCEPT !.pc = "init_get"])

\* get_or_create, first query: self.get(**kwargs).
Command_get(db, f) ==
    LET pair == InitPair(Head(f.loc.pairs)[1], Head(f.loc.pairs)[2])
        found == InitLookup(db.sims, pair) IN
    IF found = {} THEN Out(db, [f EXCEPT !.pc = "init_create"])
    ELSE IF Cardinality(found) = 1 THEN Command_count(db, f, FALSE)
    ELSE Out(db, Finish(f, "MultipleObjectsReturned", <<>>))

\* get_or_create, after DoesNotExist: self.create(**params) in a savepoint.
Command_create(db, f) ==
    LET pair == InitPair(Head(f.loc.pairs)[1], Head(f.loc.pairs)[2])
        res == Create(db, pair.a, pair.b, DefaultScore) IN
    IF res.ok THEN Command_count(res.db, f, TRUE)
    ELSE Out(db, [f EXCEPT !.pc = "init_reget"])

\* get_or_create, after IntegrityError: self.get(**kwargs) again, and the
\* IntegrityError is raised again when that finds nothing.
Command_reget(db, f) ==
    LET pair == InitPair(Head(f.loc.pairs)[1], Head(f.loc.pairs)[2])
        found == InitLookup(db.sims, pair) IN
    IF found = {} THEN Out(db, Finish(f, "IntegrityError", <<>>))
    ELSE IF Cardinality(found) = 1 THEN Command_count(db, f, FALSE)
    ELSE Out(db, Finish(f, "MultipleObjectsReturned", <<>>))

\* ---------------------------------------------------- ProductDetailView.get
\* filter(Q(product_a=product) | Q(product_b=product))
Involving(rows, p) == {x \in rows : x.a = p \/ x.b = p}

\* Mutant of OrderByScoreDesc: order_by('score'), ascending.
OrderByScoreAsc(S) ==
    {s \in [1 .. Cardinality(S) -> S] :
        /\ \A i, j \in DOMAIN s : i # j => s[i] # s[j]
        /\ \A i, j \in DOMAIN s : i < j => s[i].score <= s[j].score}

\* order_by('-score'): every order of the rows the database may return, ties
\* in any order.
OrderByScoreDesc(S) ==
    {s \in [1 .. Cardinality(S) -> S] :
        /\ \A i, j \in DOMAIN s : i # j => s[i] # s[j]
        /\ \A i, j \in DOMAIN s : i < j => s[i].score >= s[j].score}

\* [:3]
Slice(s) == SubSeq(s, 1, Min(TopK, Len(s)))

\* Lines 92-96: the member of the row that is not the product.
OtherMember(sim, p) == IF sim.a = p THEN sim.b ELSE sim.a

\* Lines 80-103; ordered is the order in which the database returns the rows.
ProductDetailView_get(db, pk, raw, ordered) ==
    LET f == Begin([op |-> "detail", pk |-> pk, raw |-> raw], "done", NoLoc) IN
    IF pk \notin db.products THEN Out(db, Finish(f, "404", <<>>))
    ELSE IF raw THEN Out(db, Finish(f, "200", <<>>))
    ELSE Out(db, Finish(f, "200", [i \in DOMAIN Slice(ordered) |-> OtherMember(Slice(ordered)[i], pk)]))

\* ------------------------------------------------------------ dispatch
\* The next step of the handler whose frame is f.
Step(db, f) ==
    CASE f.pc = "create_query" -> CreateProductView_query(db, f)
      [] f.pc = "create_link" -> CreateProductView_link(db, f)
      [] f.pc = "fb_get_clicked" -> UpdateSimilarityView_getClicked(db, f)
      [] f.pc = "fb_save_clicked" -> UpdateSimilarityView_saveClicked(db, f)
      [] f.pc = "fb_others" -> UpdateSimilarityView_others(db, f)
      [] f.pc = "fb_get_other" -> UpdateSimilarityView_getOther(db, f)
      [] f.pc = "fb_save_other" -> UpdateSimilarityView_saveOther(db, f)
      [] f.pc = "init_get" -> Command_get(db, f)
      [] f.pc = "init_create" -> Command_create(db, f)
      [] f.pc = "init_reget" -> Command_reget(db, f)

\* The handler run to its response without interruption.
RECURSIVE Run(_)
Run(o) == IF o.f.pc = "done" THEN o ELSE Run(Step(o.db, o.f))

\* ------------------------------------------------------------------ Init
Init ==
    /\ products = {}
    /\ nextId = 1
    /\ sims = {}
    /\ nextSimId = 1
    /\ nFeedback = 0
    /\ nRequests = 0
    /\ pc = [w \in Workers |-> "idle"]
    /\ req = [w \in Workers |-> NoReq]
    /\ loc = [w \in Workers |-> NoLoc]
    /\ resp = [w \in Workers |-> NoResp]
    /\ pre = [w \in Workers |-> NoPre]

SetDB(db) ==
    /\ products' = db.products
    /\ nextId' = db.nextId
    /\ sims' = db.sims
    /\ nextSimId' = db.nextSimId

\* Worker w takes the step o of its handler.
Take(w, o) ==
    /\ SetDB(o.db)
    /\ pc' = [pc EXCEPT ![w] = o.f.pc]
    /\ req' = [req EXCEPT ![w] = o.f.req]
    /\ loc' = [loc EXCEPT ![w] = o.f.loc]
    /\ resp' = [resp EXCEPT ![w] = o.f.resp]

\* The response is sent; the worker is free again.
Respond(w) ==
    /\ pc[w] = "done"
    /\ pc' = [pc EXCEPT ![w] = "idle"]
    /\ req' = [req EXCEPT ![w] = NoReq]
    /\ loc' = [loc EXCEPT ![w] = NoLoc]
    /\ resp' = [resp EXCEPT ![w] = NoResp]
    /\ pre' = [pre EXCEPT ![w] = NoPre]
    /\ UNCHANGED <<products, nextId, sims, nextSimId, nFeedback, nRequests>>

\* ----------------------------------------------- non-overlapping requests
\* No request is in flight.
Quiet == \A v \in Workers : pc[v] = "idle"

\* The request that starts with o is served to its response in one piece.
Serve(w, o) ==
    /\ Take(w, Run(o))
    /\ pre' = [pre EXCEPT ![w] = [products |-> products, sims |-> sims]]
    /\ UNCHANGED nRequests

CreateProduct(w, cap) ==
    /\ Quiet
    /\ nextId <= cap
    /\ \E valid \in BOOLEAN : Serve(w, CreateProductView_post(DB, valid))
    /\ UNCHANGED nFeedback

DeleteProduct(w, ids) ==
    /\ Quiet
    /\ \E pk \in ids : Serve(w, DeleteProductView_delete(DB, pk))
    /\ UNCHANGED nFeedback

\* At most cap feedback requests in a run; cap < 0 for any number.
UpdateSimilarity(w, ids, cap) ==
    /\ Quiet
    /\ IF cap < 0 THEN UNCHANGED nFeedback
       ELSE nFeedback < cap /\ nFeedback' = nFeedback + 1
    /\ \E cur \in ids, clicked \in ids, others \in SUBSET ids :
        Serve(w, UpdateSimilarityView_post(DB, cur, clicked, others))

InitSimilarities(w) ==
    /\ Quiet
    /\ Serve(w, Command_handle(DB))
    /\ UNCHANGED nFeedback

ProductDetail(w, ids) ==
    /\ Quiet
    /\ \E pk \in ids, raw \in BOOLEAN :
        \E ordered \in OrderByScoreDesc(Involving(sims, pk)) :
            Serve(w, ProductDetailView_get(DB, pk, raw, ordered))
    /\ UNCHANGED nFeedback

Ids == 1 .. MaxProducts

Next ==
    \/ CreateProduct(First, MaxProducts)
    \/ DeleteProduct(First, Ids)
    \/ UpdateSimilarity(First, Ids, MaxFeedback)
    \/ InitSimilarities(First)
    \/ Respond(First)

Spec == Init /\ [][Next]_vars

SatIds == 1 .. MaxSatProducts

NextSat ==
    \/ CreateProduct(First, MaxSatProducts)
    \/ DeleteProduct(First, SatIds)
    \/ UpdateSimilarity(First, SatIds, -1)
    \/ InitSimilarities(First)
    \/ Respond(First)

SpecSat == Init /\ [][NextSat]_vars

DetailIds == 1 .. MaxDetailProducts

NextDetail ==
    \/ CreateProduct(First, MaxDetailProducts)
    \/ DeleteProduct(First, DetailIds)
    \/ UpdateSimilarity(First, DetailIds, MaxDetailFeedback)
    \/ ProductDetail(First, DetailIds)
    \/ Respond(First)

SpecDetail == Init /\ [][NextDetail]_vars

\* A catalog that was loaded before the similarity table was first filled:
\* the state init_similarities is written for.
InitBulk ==
    /\ \E n \in 0 .. MaxBulkProducts :
        /\ products = 1 .. n
        /\ nextId = n + 1
    /\ sims = {}
    /\ nextSimId = 1
    /\ nFeedback = 0
    /\ nRequests = 0
    /\ pc = [w \in Workers |-> "idle"]
    /\ req = [w \in Workers |-> NoReq]
    /\ loc = [w \in Workers |-> NoLoc]
    /\ resp = [w \in Workers |-> NoResp]
    /\ pre = [w \in Workers |-> NoPre]

BulkIds == 1 .. MaxBulkProducts

NextBulk ==
    \/ CreateProduct(First, MaxBulkProducts)
    \/ DeleteProduct(First, BulkIds)
    \/ UpdateSimilarity(First, BulkIds, MaxBulkFeedback)
    \/ InitSimilarities(First)
    \/ Respond(First)

SpecBulk == InitBulk /\ [][NextBulk]_vars

\* ------------------------------------------------- interleaved requests
ConcIds == 1 .. MaxConcProducts

\* Worker w accepts a request.
Accept(w) ==
    /\ pc[w] = "idle"
    /\ nRequests < MaxRequests
    /\ nRequests' = nRequests + 1
    /\ UNCHANGED pre

\* Worker w is at the query `at` of its handler.
At(w, at) ==
    /\ pc[w] = at
    /\ UNCHANGED <<nFeedback, nRequests, pre>>

ConcCreateProduct(w) ==
    /\ Accept(w)
    /\ nextId <= MaxConcProducts
    /\ \E valid \in BOOLEAN : Take(w, CreateProductView_post(DB, valid))
    /\ UNCHANGED nFeedback

ConcCreateQuery(w) ==
    /\ At(w, "create_query")
    /\ Take(w, CreateProductView_query(DB, Frame(w)))

ConcCreateLink(w) ==
    /\ At(w, "create_link")
    /\ Take(w, CreateProductView_link(DB, Frame(w)))

ConcDeleteProduct(w) ==
    /\ Accept(w)
    /\ \E pk \in ConcIds : Take(w, DeleteProductView_delete(DB, pk))
    /\ UNCHANGED nFeedback

ConcUpdateSimilarity(w) ==
    /\ Accept(w)
    /\ nFeedback < MaxConcFeedback
    /\ nFeedback' = nFeedback + 1
    /\ \E cur \in ConcIds, clicked \in ConcIds, others \in SUBSET ConcIds :
          Take(w, UpdateSimilarityView_post(DB, cur, clicked, others))

ConcGetClicked(w) ==
    /\ At(w, "fb_get_clicked")
    /\ Take(w, UpdateSimilarityView_getClicked(DB, Frame(w)))

ConcSaveClicked(w) ==
    /\ At(w, "fb_save_clicked")
    /\ Take(w, UpdateSimilarityView_saveClicked(DB, Frame(w)))

ConcOthers(w) ==
    /\ At(w, "fb_others")
    /\ Take(w, UpdateSimilarityView_others(DB, Frame(w)))

ConcGetOther(w) ==
    /\ At(w, "fb_get_other")
    /\ Take(w, UpdateSimilarityView_getOther(DB, Frame(w)))

ConcSaveOther(w) ==
    /\ At(w, "fb_save_other")
    /\ Take(w, UpdateSimilarityView_saveOther(DB, Frame(w)))

ConcInitSimilarities(w) ==
    /\ Accept(w)
    /\ Take(w, Command_handle(DB))
    /\ UNCHANGED nFeedback

ConcInitGet(w) ==
    /\ At(w, "init_get")
    /\ Take(w, Command_get(DB, Frame(w)))

ConcInitCreate(w) ==
    /\ At(w, "init_create")
    /\ Take(w, Command_create(DB, Frame(w)))

ConcInitReget(w) ==
    /\ At(w, "init_reget")
    /\ Take(w, Command_reget(DB, Frame(w)))

NextConc ==
    \/ \E w \in Workers : ConcCreateProduct(w)
    \/ \E w \in Workers : ConcCreateQuery(w)
    \/ \E w \in Workers : ConcCreateLink(w)
    \/ \E w \in Workers : ConcDeleteProduct(w)
    \/ \E w \in Workers : ConcUpdateSimilarity(w)
    \/ \E w \in Workers : ConcGetClicked(w)
    \/ \E w \in Workers : ConcSaveClicked(w)
    \/ \E w \in Workers : ConcOthers(w)
    \/ \E w \in Workers : ConcGetOther(w)
    \/ \E w \in Workers : ConcSaveOther(w)
    \/ \E w \in Workers : ConcInitSimilarities(w)
    \/ \E w \in Workers : ConcInitGet(w)
    \/ \E w \in Workers : ConcInitCreate(w)
    \/ \E w \in Workers : ConcInitReget(w)
    \/ \E w \in Workers : Respond(w)

SpecConc == Init /\ [][NextConc]_vars

\* ------------------------------------- two requests on a catalog in use
\* The tables after n product creations served one after the other.
RECURSIVE Seeded(_)
Seeded(n) ==
    IF n = 0 THEN [products |-> {}, nextId |-> 1, sims |-> {}, nextSimId |-> 1]
    ELSE Run(CreateProductView_post(Seeded(n - 1), TRUE)).db

\* The tables after n products were loaded without their similarities.
Loaded(n) == [products |-> 1 .. n, nextId |-> n + 1, sims |-> {}, nextSimId |-> 1]

\* A catalog built by the creation view, or loaded before the similarity
\* table was first filled.
InitRace ==
    /\ \E n \in 0 .. MaxRaceProducts, linked \in BOOLEAN :
        LET db == IF linked THEN Seeded(n) ELSE Loaded(n) IN
        /\ products = db.products
        /\ nextId = db.nextId
        /\ sims = db.sims
        /\ nextSimId = db.nextSimId
    /\ nFeedback = 0
    /\ nRequests = 0
    /\ pc = [w \in Workers |-> "idle"]
    /\ req = [w \in Workers |-> NoReq]
    /\ loc = [w \in Workers |-> NoLoc]
    /\ resp = [w \in Workers |-> NoResp]
    /\ pre = [w \in Workers |-> NoPre]

RaceIds == 1 .. MaxRaceProducts

\* Worker w accepts a request; pre[w] keeps the tables of that moment and the
\* number of requests accepted before it.
AcceptRace(w) ==
    /\ pc[w] = "idle"
    /\ nRequests < MaxRaceRequests
    /\ nRequests' = nRequests + 1
    /\ pre' = [pre EXCEPT ![w] = [products |-> products, sims |-> sims, seq |-> nRequests]]
    /\ UNCHANGED nFeedback

RaceCreateProduct(w) ==
    /\ AcceptRace(w)
    /\ nextId <= MaxRaceProducts
    /\ \E valid \in BOOLEAN : Take(w, CreateProductView_post(DB, valid))

RaceDeleteProduct(w) ==
    /\ AcceptRace(w)
    /\ \E pk \in RaceIds : Take(w, DeleteProductView_delete(DB, pk))

RaceUpdateSimilarity(w) ==
    /\ AcceptRace(w)
    /\ \E cur \in RaceIds, clicked \in RaceIds, others \in SUBSET RaceIds :
          Take(w, UpdateSimilarityView_post(DB, cur, clicked, others))

RaceInitSimilarities(w) ==
    /\ AcceptRace(w)
    /\ Take(w, Command_handle(DB))

NextRace ==
    \/ \E w \in Workers : RaceCreateProduct(w)
    \/ \E w \in Workers : ConcCreateQuery(w)
    \/ \E w \in Workers : ConcCreateLink(w)
    \/ \E w \in Workers : RaceDeleteProduct(w)
    \/ \E w \in Workers : RaceUpdateSimilarity(w)
    \/ \E w \in Workers : ConcGetClicked(w)
    \/ \E w \in Workers : ConcSaveClicked(w)
    \/ \E w \in Workers : ConcOthers(w)
    \/ \E w \in Workers : ConcGetOther(w)
    \/ \E w \in Workers : ConcSaveOther(w)
    \/ \E w \in Workers : RaceInitSimilarities(w)
    \/ \E w \in Workers : ConcInitGet(w)
    \/ \E w \in Workers : ConcInitCreate(w)
    \/ \E w \in Workers : ConcInitReget(w)
    \/ \E w \in Workers : Respond(w)

SpecRace == InitRace /\ [][NextRace]_vars

\* ======================================================================
\* Properties
\* ======================================================================
\* The finished request of the worker of the sequential specifications.
Done(op) == pc[First] = "done" /\ req[First].op = op
Status == resp[First].status
Body == resp[First].body
Before == pre[First]
Request == req[First]

\* The rows of a table for the unordered pair {p, q}.
Between(rows, p, q) == {x \in rows : {x.a, x.b} = {p, q}}

\* C1: every stored similarity row has product_a.id < product_b.id (so none
\* pairs a product with itself), in every state reached by interleaved
\* creation, deletion, bulk initialization and feedback; and a row created for
\* two distinct products in either orientation is stored as (min id, max id).
C1_CanonicalOrdering ==
    /\ \A x \in sims : x.a < x.b
    /\ \A p, q \in products :
          LET res == Create(DB, p, q, DefaultScore) IN
          (p # q /\ res.ok) =>
              \A x \in res.db.sims \ sims : x.a = Min(p, q) /\ x.b = Max(p, q)

\* C1 witness: bulk initialization has created a row while a product
\* creation was being served, and a row is stored.
C1_Witness ==
    \E w, v \in Workers :
        /\ req[w].op = "init" /\ loc[w].created > 0
        /\ req[v].op = "create"
        /\ \E x \in sims : x.a < x.b

\* C2: at most one row per unordered pair of products, in every state reached
\* by interleaved product creation, bulk initialization, feedback and deletion.
C2_Uniqueness ==
    \A x, y \in sims : {x.a, x.b} = {y.a, y.b} => x = y

\* C2 witness: bulk initialization found no row for a pair, a product-creation
\* request inserted that pair, and the command's own INSERT was refused.
C2_Witness ==
    \E w, v \in Workers :
        /\ pc[w] = "init_reget"
        /\ req[v].op = "create"
        /\ \E x \in sims : <<x.a, x.b>> = Head(loc[w].pairs)

\* The score stored for the unordered pair {p, q}.
ScoreOf(rows, p, q) == (CHOOSE x \in Between(rows, p, q) : TRUE).score

\* C3: every stored score is within 0.0 .. 1.0 in every state; in a feedback
\* call the increment of a clicked row whose score was above 0.9 leaves it at
\* exactly 1.0, and the decrement of an unclicked row whose score was below
\* 0.05 leaves it at exactly 0.0.
C3_Bounds ==
    /\ \A x \in sims : MinScore <= x.score /\ x.score <= MaxScore
    /\ Done("feedback") =>
        LET r == Request IN
        /\ \A o \in Between(Before.sims, r.cur, r.clicked) :
           \A n \in Between(sims, r.cur, r.clicked) :
              (r.clicked \notin r.others /\ o.score > MaxScore - IncStep)
                  => n.score = MaxScore
        /\ Status = "204" =>
             \A u \in r.others \ {r.clicked} :
             \A o \in Between(Before.sims, r.cur, u) :
             \A n \in Between(sims, r.cur, u) :
                o.score < MinScore + DecStep => n.score = MinScore

\* C3 witness: one feedback call has raised a clicked row from 0.95 to 1.0 and
\* left an unclicked row, already at 0.0, at 0.0.
C3_Witness ==
    /\ Done("feedback") /\ Status = "204"
    /\ Request.clicked \notin Request.others
    /\ \E o \in Between(Before.sims, Request.cur, Request.clicked) :
          o.score = MaxScore - 1
    /\ \E n \in Between(sims, Request.cur, Request.clicked) : n.score = MaxScore
    /\ \E u \in Request.others :
          /\ \E o \in Between(Before.sims, Request.cur, u) : o.score = MinScore
          /\ \E n \in Between(sims, Request.cur, u) : n.score = MinScore

\* C4: a feedback call applies all of its adjustments or none: a call that
\* does not succeed leaves the similarity table as it was before the call.
C4_AllOrNothing ==
    (Done("feedback") /\ Status # "204") => sims = Before.sims

\* Every unordered pair of distinct products of prods has exactly one row, and
\* no product is paired with itself.
Complete(rows, prods) ==
    \A p, q \in prods : Cardinality(Between(rows, p, q)) = IF p = q THEN 0 ELSE 1

\* C5: bulk initialization, run from any state, completes, leaves every row
\* that existed unchanged, and leaves exactly one row for every pair of
\* products; a run on a complete table creates nothing.
C5_InitIdempotent ==
    Done("init") =>
        /\ Status = "success"
        /\ Before.sims \subseteq sims
        /\ Complete(sims, products)
        /\ Complete(Before.sims, products) => (sims = Before.sims /\ Body[2] = 0)

\* What the spec says a successful feedback call stores; a row named both as
\* clicked and as unclicked gets the increment and then the decrement.
Expected(rows, cur, clicked, others) ==
    LET Up(s) == IF s + 2 < 20 THEN s + 2 ELSE 20
        Down(s) == IF s - 1 > 0 THEN s - 1 ELSE 0 IN
    {IF {x.a, x.b} = {cur, clicked}
         THEN [x EXCEPT !.score = IF clicked \in others THEN Down(Up(@)) ELSE Up(@)]
     ELSE IF \E u \in others : {x.a, x.b} = {cur, u}
         THEN [x EXCEPT !.score = Down(@)]
     ELSE x : x \in rows}

\* C6: a successful feedback call sets the clicked row to
\* min(score + 0.1, 1.0), the row of every unclicked product to
\* max(score - 0.05, 0.0), and changes no other row and not the set of rows.
\* The payload documents the unclicked list as the recommendations that were
\* not clicked; should it name the clicked product all the same, that row gets
\* both adjustments in turn.
C6_FeedbackEffect ==
    (Done("feedback") /\ Status = "204")
        => sims = Expected(Before.sims, Request.cur, Request.clicked, Request.others)

\* C6 witness: of three rows at 0.5 the clicked one is at 0.6, an unclicked
\* one at 0.45 and the third still at 0.5.
C6_Witness ==
    /\ Done("feedback") /\ Status = "204" /\ Request.clicked \notin Request.others
    /\ Cardinality(sims) = 3
    /\ \A x \in Before.sims : x.score = DefaultScore
    /\ \E x \in sims : {x.a, x.b} = {Request.cur, Request.clicked} /\ x.score = 12
    /\ \E u \in Request.others : \E x \in sims : {x.a, x.b} = {Request.cur, u} /\ x.score = 9
    /\ \E x \in sims : Request.cur \notin {x.a, x.b} /\ x.score = DefaultScore

\* The feedback request names a pair that has no row.
MissingPair ==
    \/ Between(Before.sims, Request.cur, Request.clicked) = {}
    \/ \E u \in Request.others : Between(Before.sims, Request.cur, u) = {}

\* C7: a feedback call that names a pair without a row (also one whose
\* current, clicked or unclicked id names no product) answers 404 Not Found,
\* and no feedback call adds a row.
C7_NotFound ==
    Done("feedback") =>
        /\ MissingPair => Status = "404"
        /\ {x.id : x \in sims} \subseteq {x.id : x \in Before.sims}

\* C8: run on N products and an empty similarity table, bulk initialization
\* creates N*(N-1)/2 rows, one per pair of distinct products and none for a
\* product with itself, all at 0.5, and reports N*(N-1)/2 pairs processed and
\* N*(N-1)/2 created.
C8_BulkComplete ==
    (Done("init") /\ Before.sims = {}) =>
        LET n == Cardinality(Before.products)
            t == (n * (n - 1)) \div 2 IN
        /\ Status = "success"
        /\ Body = <<t, t>>
        /\ Cardinality(sims) = t
        /\ Complete(sims, Before.products)
        /\ \A x \in sims : x.score = DefaultScore /\ {x.a, x.b} \subseteq Before.products

\* C8 witness: the command has run on three products without rows.
C8_Witness ==
    /\ Done("init") /\ Before.sims = {}
    /\ Cardinality(Before.products) = 3
    /\ Cardinality(sims) = 3
    /\ Body = <<3, 3>>

\* C9: creating a product while M products exist adds exactly M rows, one
\* for each existing product paired with the new one, each at 0.5, and changes
\* no row that existed; a valid creation request is answered 201.
C9_NewProductLinkage ==
    Done("create") =>
        IF Request.valid
        THEN /\ Status = "201"
             /\ \E new \in products \ Before.products :
                 /\ products = Before.products \cup {new}
                 /\ Before.sims \subseteq sims
                 /\ Cardinality(sims \ Before.sims) = Cardinality(Before.products)
                 /\ \A p \in Before.products :
                      \E x \in sims \ Before.sims :
                          {x.a, x.b} = {p, new} /\ x.score = DefaultScore
        ELSE Status = "400" /\ products = Before.products /\ sims = Before.sims

\* C9 witness: a product was created while two products with a row existed.
C9_Witness ==
    /\ Done("create") /\ Status = "201"
    /\ Cardinality(Before.products) = 2
    /\ Before.sims # {}
    /\ Cardinality(sims \ Before.sims) = 2

\* C10: for a product p with r rows the recommendation list has min(3, r)
\* entries, each the other member of a row of p, none p itself, none twice, in
\* non-increasing order of score, and every row of p that is not represented
\* has a score <= every score represented; the answer is 200 also for r < 3.
C10_SelectorResult ==
    (Done("detail") /\ ~Request.raw /\ Request.pk \in products) =>
        LET p == Request.pk
            rows == Involving(sims, p)
            r == Cardinality(rows)
            b == Body IN
        /\ Status = "200"
        /\ Len(b) = IF r < 3 THEN r ELSE 3
        /\ \A i \in DOMAIN b : b[i] # p /\ Between(sims, p, b[i]) # {}
        /\ \A i, j \in DOMAIN b : i # j => b[i] # b[j]
        /\ \A i, j \in DOMAIN b :
              i < j => ScoreOf(sims, p, b[i]) >= ScoreOf(sims, p, b[j])
        /\ \A x \in rows :
              (\A i \in DOMAIN b : {x.a, x.b} # {p, b[i]}) =>
                  \A i \in DOMAIN b : x.score <= ScoreOf(sims, p, b[i])

\* C10 witness: a product with four rows of which three are recommended, the
\* first with a higher score than the last and the row left out lower still.
C10_Witness ==
    /\ Done("detail") /\ ~Request.raw /\ Status = "200"
    /\ Cardinality(Involving(sims, Request.pk)) = 4
    /\ Len(Body) = 3
    /\ ScoreOf(sims, Request.pk, Body[1]) > ScoreOf(sims, Request.pk, Body[3])
    /\ \E x \in Involving(sims, Request.pk) :
          x.score < ScoreOf(sims, Request.pk, Body[3])

\* C11: the similarity rows reference existing products in every state, also
\* while requests are interleaved; and the step that deletes product pk
\* removes pk and exactly the rows that reference it, leaving every other row
\* as it was (a delete answered 404 changes nothing).
C11_CascadeDelete ==
    /\ [](\A x \in sims : x.a \in products /\ x.b \in products)
    /\ [][\A w \in Workers :
            (pc[w] = "idle" /\ pc'[w] = "done" /\ req'[w].op = "delete") =>
                IF resp'[w].status = "204"
                THEN /\ req'[w].pk \in products
                     /\ products' = products \ {req'[w].pk}
                     /\ sims' = {x \in sims : x.a # req'[w].pk /\ x.b # req'[w].pk}
                ELSE /\ req'[w].pk \notin products
                     /\ UNCHANGED <<products, sims>>]_vars

\* C11 witness: a product was deleted together with its rows while another
\* row stays, and the other worker holds a row of the deleted product that it
\* read before and is about to save.
C11_Witness ==
    \E w, v \in Workers :
        /\ pc[w] = "done" /\ req[w].op = "delete" /\ resp[w].status = "204"
        /\ \E x \in pre[w].sims : req[w].pk \in {x.a, x.b}
        /\ sims # {}
        /\ \A x \in sims : req[w].pk \notin {x.a, x.b}
        /\ pc[v] = "fb_save_clicked"
        /\ req[w].pk \in {loc[v].sim.a, loc[v].sim.b}

\* C12: a failure to create the row of one pair does not abort bulk
\* initialization: every run of the command ends with its report, has then
\* processed every pair of the products it listed, and reports that total.
C12_ToleratesFailure ==
    \A w \in Workers :
        (pc[w] = "done" /\ req[w].op = "init") =>
            LET n == Cardinality(pre[w].products) IN
            /\ resp[w].status = "success"
            /\ loc[w].pairs = <<>>
            /\ resp[w].body[1] = (n * (n - 1)) \div 2

\* C13: two product creations that run interleaved both end without error,
\* and each new product then has exactly one row with every other product.
C13_RaceSafeCreation ==
    (\A w \in Workers : pc[w] = "done" /\ req[w].op = "create" /\ req[w].valid) =>
        \A w \in Workers :
            /\ resp[w].status = "201"
            /\ \A p \in products \ {loc[w].new} :
                  Cardinality(Between(sims, loc[w].new, p)) = 1

\* C14: save() refuses a row whose score is outside 0.0 .. 1.0 and leaves the
\* table as it was.
C14_SaveValidatesBounds ==
    \A x \in sims : \A s \in {MinScore - 1, MaxScore + 1} :
        LET res == SaveUpdate(DB, [x EXCEPT !.score = s]) IN
        ~res.ok /\ res.db = DB

\* The tables after a feedback call with current = cur and clicked = clicked
\* and no unclicked products, and its status.
Clicked(cur, clicked) ==
    LET o == Run(UpdateSimilarityView_post(DB, cur, clicked, {})) IN
    [sims |-> o.db.sims, products |-> o.db.products, status |-> o.f.resp.status]

\* C15: a feedback call for (P, Q) and one for (Q, P) are answered alike and
\* leave the same tables, changing at most the one row of the pair; and the
\* row P's recommendations take for Q is the row Q's recommendations take for
\* P, so both see the same score.
C15_Symmetry ==
    /\ \A p, q \in Ids :
          /\ Clicked(p, q) = Clicked(q, p)
          /\ Clicked(p, q).sims \ sims \subseteq Between(Clicked(p, q).sims, p, q)
          /\ Cardinality(Clicked(p, q).sims \ sims) <= 1
    /\ \A p, q \in products :
          /\ {x \in Involving(sims, p) : OtherMember(x, p) = q}
                = {x \in Involving(sims, q) : OtherMember(x, q) = p}
          /\ Cardinality({x.score : x \in Between(sims, p, q)}) <= 1

\* C15 witness: a feedback call whose current product has the larger id has
\* raised the row of the pair, and the call the other way round would raise
\* that row again.
C15_Witness ==
    /\ Done("feedback") /\ Status = "204"
    /\ Request.cur > Request.clicked
    /\ \E x \in sims : /\ x.a = Request.clicked /\ x.b = Request.cur
                       /\ x.score = DefaultScore + IncStep
    /\ Clicked(Request.clicked, Request.cur).status = "204"
    /\ \E x \in Clicked(Request.clicked, Request.cur).sims :
          /\ x.a = Request.clicked /\ x.b = Request.cur
          /\ x.score = DefaultScore + IncStep + IncStep

\* C16: from an empty catalog, with product creations, deletions and feedback
\* calls served one after the other, every pair of distinct products has
\* exactly one row, there are N*(N-1)/2 rows for N products, and a
\* recommendation list has min(3, N-1) entries.
C16_Completeness ==
    LET n == Cardinality(products) IN
    /\ Complete(sims, products)
    /\ Cardinality(sims) = (n * (n - 1)) \div 2
    /\ (Done("detail") /\ ~Request.raw /\ Request.pk \in products) =>
          Len(Body) = IF n - 1 < 3 THEN n - 1 ELSE 3

\* C16 witness: after a deletion has left a gap in the ids and a feedback
\* call has moved a score, a product of a catalog of four is shown with three
\* recommendations.
C16_Witness ==
    /\ Done("detail") /\ ~Request.raw /\ Len(Body) = 3
    /\ Cardinality(products) = 4
    /\ \E p \in 1 .. nextId - 1 : p \notin products
    /\ \E x \in sims : x.score # DefaultScore
    /\ Cardinality(sims) = 6

\* The tables after the feedback request r is served on db without overlap.
Feedback(db, r) == Run(UpdateSimilarityView_post(db, r.cur, r.clicked, r.others)).db

\* C17: when two feedback calls have run interleaved, the rows are those that
\* the two calls leave when served one after the other in one of the two
\* orders (calls that adjust no common row always satisfy this).
C17_NoLostUpdate ==
    \A w, v \in Workers :
        (/\ pc[w] = "done" /\ req[w].op = "feedback"
         /\ pc[v] = "done" /\ req[v].op = "feedback"
         /\ pre[w].seq < pre[v].seq) =>
            LET base == [DB EXCEPT !.sims = pre[w].sims] IN
            \/ sims = Feedback(Feedback(base, req[w]), req[v]).sims
            \/ sims = Feedback(Feedback(base, req[v]), req[w]).sims
====
